---- MODULE Spec2Model ----
(***************************************************************************)
(* State-machine model of github.com/12end/request, package raw:           *)
(*   - the dialer and its address-keyed registry of idle connections       *)
(*     (raw/conn.go), driven directly by concurrent callers (SpecPool);    *)
(*   - the Client and its redirect loop (Client.do), which owns a private  *)
(*     dialer (Spec);                                                      *)
(*   - request construction across hops (SpecRequest), response            *)
(*     translation (SpecTranslate), clientDial and TlsHandshake (SpecTls). *)
(***************************************************************************)
EXTENDS Integers, Sequences, FiniteSets, TLC

\* ------------------------------------------------------------------ bounds
\* Number of goroutines that use one dialer concurrently.
NCallers == 2
\* Number of network connections the fake transport creates in one run.
MaxConns == 2
\* Longest idle slice per address kept in the registry.
MaxIdle == 2
\* Largest Options.MaxRedirects a caller configures.
MaxRedirectsBound == 1

Callers == 1..NCallers

\* ------------------------------------------------------- addresses, transport
\* Address strings callers pass to Dial: a host name form and IP literal forms.
Addrs == {"hostA:80", "10.0.0.1:80", "10.0.0.2:80"}

\* net.Conn.RemoteAddr().String(): the resolved IP:port of the socket, which is
\* the dialled string only when that string already is an IP literal.
RemoteAddr(addr) == IF addr = "hostA:80" THEN "10.0.0.1:80" ELSE addr

VARIABLES
    conns,      \* dialer.conns: address -> slice of idle connections
    mu,         \* dialer.Mutex: 0 when free, else the caller holding it
    cinfo,      \* every connection created so far, indexed by its identity
    dials,      \* number of network dials performed (clientDial calls)
    pcP,        \* pool callers: position of each caller
    addrP,      \* pool callers: address of the caller's Dial
    heldP,      \* pool callers: connection checked out to the caller, 0 if none
    coldP,      \* pool callers: the caller's Dial performed a network dial
    pending,    \* address -> a connection acquired for it was released and no
                \* Dial for it has started since
    firstAfterRelease,  \* caller -> its Dial is the first for its address
                        \* after such a release
    copts,      \* Client.Options
    pc,         \* position of the Client call in progress ("idle": none,
                \* "returned": it has just returned)
    call,       \* arguments and locals of the call: method, url, body reader,
                \* options, redirectstatus, conn, resp
    hops,       \* wire requests written by the call, one record per hop
    ret,        \* what the last call returned to its caller
    closedAddrs,\* addresses dialled for responses whose body the caller closed
    build,      \* request construction of a call, hop by hop: its options, the
                \* caller's header map, the addresses dialled, the request
                \* handed to WriteRequest
    trans,      \* response translation: the wire response given to
                \* toHTTPResponse and what it returned
    tls,        \* a call of clientDial or TlsHandshake: its arguments, what the
                \* network did, the raw socket, what the call returned
    wrap        \* the package's Response and Request wrappers: where each
                \* wrapper is, the fasthttp object it points at, and
                \* fasthttp's own free pools

dialerVars == <<conns, mu, cinfo, dials>>
callerVars == <<pcP, addrP, heldP, coldP, pending, firstAfterRelease>>
clientVars == <<copts, pc, call, hops, ret, closedAddrs>>
pureVars == <<build, trans, tls, wrap>>
vars == <<dialerVars, callerVars, clientVars, pureVars>>

\* ------------------------------------------------------------------ dialer
\* dialTimeout, the critical section: the registry lookup and the "removal".
dialTimeoutLookup(cs, addr) ==
    IF Len(cs[addr]) > 0
    THEN [hit   |-> TRUE,
          conn  |-> cs[addr][1],
          conns |-> [cs EXCEPT ![addr][1] = cs[addr][Len(cs[addr])]]]
    ELSE [hit |-> FALSE, conn |-> 0, conns |-> cs]

\* A single-flight variant: a cold dial hands out the connection made last.
newConnCoalesced(ci) == IF Len(ci) > 0 THEN Len(ci) ELSE 1

\* dialTimeout, the cold path: &conn{...} is a newly allocated connection.
newConn(ci) == Len(ci) + 1

\* The connection table after connection id was (re)made for the dialled addr.
withConn(ci, id, addr) ==
    [i \in 1..(IF id > Len(ci) THEN id ELSE Len(ci)) |->
        IF i = id
        THEN [remote |-> RemoteAddr(addr), via |-> addr, closes |-> 0,
              releases |-> 0, body |-> "none"]
        ELSE ci[i]]

\* conn.Release: append to the slice keyed by the socket's remote address.
Release(cs, ci, c) ==
    [cs EXCEPT ![ci[c].remote] = Append(@, c)]

\* ------------------------------------------------- Client: values and helpers
\* Options, the fields the redirect loop reads.
OptionsSet == [FollowRedirects : BOOLEAN, MaxRedirects : 0..MaxRedirectsBound]

Url(s, h, p) == [valid |-> TRUE, scheme |-> s, host |-> h, path |-> p]
\* A string url.ParseRequestURI rejects (the empty string among them).
BadUrl == [valid |-> FALSE, scheme |-> "", host |-> "", path |-> ""]

\* URLs callers pass in.
Urls == {Url("http", "10.0.0.1:80", "/old"), Url("http", "hostA:80", "/old"), BadUrl}
\* Requests callers make: a GET without a body, a POST with a two-byte body.
Requests == {[method |-> "GET", data |-> <<>>], [method |-> "POST", data |-> <<1, 2>>]}

\* Location header values a server sends: a path, an absolute URL, none.
LocRel == [rel |-> TRUE, url |-> Url("", "", "/new")]
LocAbs == [rel |-> FALSE, url |-> Url("https", "10.0.0.2:80", "/path")]
LocNone == [rel |-> FALSE, url |-> BadUrl]
Locations == {LocRel, LocAbs, LocNone}

\* Status codes the server answers with: success, and two of the redirect class.
Statuses == {200, 302, 303}

\* client.Status.IsRedirect: the redirect class.
IsRedirect(code) == code >= 300 /\ code < 400

\* Responses the server may answer a hop with.
Responses ==
    {[status |-> 200, loc |-> LocNone]} \cup
    {[status |-> s, loc |-> l] : s \in Statuses \ {200}, l \in Locations}

NoResp == [status |-> 0, loc |-> LocNone]
NoRet == [kind |-> "none", status |-> 0, err |-> "", conn |-> 0]
\* Client.do, the redirect branch: the errors of io.Copy and of r.Body.Close.
NoClosing == [drain |-> "", close |-> ""]

NoCall ==
    [api |-> "", method |-> "GET", url |-> BadUrl,
     body |-> [data |-> <<>>, pos |-> 0],
     opts |-> [FollowRedirects |-> FALSE, MaxRedirects |-> 0],
     rs |-> [FollowRedirects |-> FALSE, MaxRedirects |-> 0, Current |-> 0],
     conn |-> 0, dialed |-> FALSE, resp |-> NoResp, closing |-> NoClosing]

\* A parser that never fails: what it cannot parse it reads as the root of the
\* first address.
ParseRequestURILenient(url) ==
    [err |-> "", u |-> IF url.valid THEN url ELSE Url("http", "10.0.0.1:80", "/")]

\* url.ParseRequestURI: the parsed URL, or an error.
ParseRequestURI(url) ==
    [err |-> IF url.valid THEN "" ELSE "parse", u |-> url]

\* Client.do: protocol is https only for an https:// URL.
protocolOf(url) == IF url.scheme = "https" THEN "https" ELSE "http"

\* client WriteRequest: serialises the request, reading its body source (an
\* io.Reader, which yields each byte once) from its position to EOF.
WriteRequest(body) ==
    [written |-> SubSeq(body.data, body.pos + 1, Len(body.data)),
     body |-> [body EXCEPT !.pos = Len(body.data)]]

\* A choice that reports the later of two errors.
lastErr(err1, err2) == IF err2 # "" THEN err2 ELSE IF err1 # "" THEN err1 ELSE ""

\* firstErr
firstErr(err1, err2) == IF err1 # "" THEN err1 ELSE IF err2 # "" THEN err2 ELSE ""

\* A Close that also hands the connection back to the dialer.
readCloserCloseAndRelease(rec) ==
    [rec EXCEPT !.closes = @ + 1, !.releases = @ + 1]

\* readCloser.Close: the embedded io.Closer is the conn, so this is conn.Close.
readCloserClose(rec) == [rec EXCEPT !.closes = @ + 1]

\* A redirect branch that goes on to the next hop with the body left as it is.
leaveBodyOpen(rec) == rec

\* Client.do, the redirect branch: io.Copy(io.Discard, r.Body), r.Body.Close().
drainAndClose(rec) == [readCloserClose(rec) EXCEPT !.body = "drained"]

\* A redirect that rewrites the method on 303 See Other.
redirectMethodSeeOther(method, status) == IF status = 303 THEN "GET" ELSE method

\* Client.do: the method handed to the next hop.
redirectMethod(method, status) == method

\* A resolution that rebuilds a path Location on the plain-text scheme.
redirectUrlPlainScheme(url, loc) ==
    IF loc.rel THEN Url("http", url.host, loc.url.path) ELSE loc.url

\* Client.do: the Location resolved against the hop that received it.
redirectUrl(url, loc) ==
    IF loc.rel THEN Url(protocolOf(url), url.host, loc.url.path) ELSE loc.url

\* A redirect check without the bound.
shouldRedirectUnbounded(status, rs) == IsRedirect(status) /\ rs.FollowRedirects

\* Client.do: the redirect check.
shouldRedirect(status, rs) ==
    IsRedirect(status) /\ rs.FollowRedirects /\ rs.Current <= rs.MaxRedirects

\* --------------------------------------------- request construction: values
\* Longest redirect chain whose requests are constructed.
MaxBuildHops == 2

\* Largest timeout a caller passes, in time units; 0 is no timeout.
MaxTimeout == 2

\* Hosts of the URLs of the hops: with a port and without one.
BuildHosts == {"hostA:80", "hostB"}

\* make(map[string][]string): the empty header map (also what a nil map becomes).
NoHeaders == [k \in {} |-> <<>>]

\* Header maps callers pass: none, one with a Host of their own, one with a
\* key of two values.
HeaderMaps ==
    {NoHeaders,
     [k \in {"Host"} |-> <<"user.example">>],
     [k \in {"Accept"} |-> <<"a", "b">>]}

\* client.Header
Header(k, v) == [Key |-> k, Value |-> v]

\* Options, the fields request construction reads.
BuildOptionsSet ==
    [AutomaticHostHeader : BOOLEAN,
     CustomHeaders : {<<>>, <<Header("Host", "custom.example")>>,
                      <<Header("X-Probe", "1")>>},
     CustomRawBytes : {<<>>, <<71, 69, 84>>},
     Timeout : 0..MaxTimeout]

NoBuildOptions ==
    [AutomaticHostHeader |-> FALSE, CustomHeaders |-> <<>>, CustomRawBytes |-> <<>>,
     Timeout |-> 0]

\* client.Request, the fields toRequest sets.
Request(method, path, headers, raw) ==
    [Method |-> method, Path |-> path, Headers |-> headers, RawBytes |-> raw]

NoRequest == Request("", "", <<>>, <<>>)

\* URLs of the hops, as url.ParseRequestURI splits them: Host, Path, RawQuery.
BuildUrls == [host : BuildHosts, path : {"", "/old"}, query : {"", "q=1"}]

\* The uripath argument: none, an override.
UriPaths == {"", "/override"}

\* A path computation that leaves the query out.
effectivePathWithoutQuery(u, uripath) ==
    IF uripath # "" THEN uripath
    ELSE IF u.path = "" THEN "/" ELSE u.path

\* Client.do: the standard path, path[?query], or the override.
effectivePath(u, uripath) ==
    IF uripath # "" THEN uripath
    ELSE (IF u.path = "" THEN "/" ELSE u.path)
         \o (IF u.query # "" THEN "?" \o u.query ELSE "")

\* time.Time's zero value: a connection with this deadline has none.
NoDeadline == 0

\* A deadline step that leaves the connection as it was dialled.
deadlineNotSet(deadline, now, options) == deadline

\* Client.do: if options.Timeout > 0 { conn.SetDeadline(time.Now().Add(options.Timeout)) }
setDeadline(deadline, now, options) ==
    IF options.Timeout > 0 THEN now + options.Timeout ELSE deadline

\* An automatic Host that yields to a Host the caller put in the map.
automaticHostKeepCallers(headers, host, options) ==
    IF options.AutomaticHostHeader /\ "Host" \notin DOMAIN headers
    THEN [k \in DOMAIN headers \cup {"Host"} |->
             IF k = "Host" THEN <<host>> ELSE headers[k]]
    ELSE headers

\* Client.do: if options.AutomaticHostHeader { headers["Host"] = []string{host} }
automaticHost(headers, host, options) ==
    IF options.AutomaticHostHeader
    THEN [k \in DOMAIN headers \cup {"Host"} |->
             IF k = "Host" THEN <<host>> ELSE headers[k]]
    ELSE headers

\* The orders in which a range over a map with key set K may visit the keys.
KeyOrders(K) ==
    {o \in [1..Cardinality(K) -> K] : \A i, j \in DOMAIN o : i # j => o[i] # o[j]}

RECURSIVE headersInOrder(_, _)
\* toHeaders, for one order of the map's keys: one client.Header per value.
headersInOrder(h, order) ==
    IF Len(order) = 0
    THEN <<>>
    ELSE [i \in 1..Len(h[order[1]]) |-> Header(order[1], h[order[1]][i])]
         \o headersInOrder(h, Tail(order))

\* toHeaders: the lists it may return, one per iteration order of the map.
toHeaders(h) == {headersInOrder(h, o) : o \in KeyOrders(DOMAIN h)}

\* toRequest, given the list toHeaders returned.
toRequest(method, path, reqHeaders, options) ==
    IF Len(options.CustomRawBytes) > 0
    THEN Request("", "", <<>>, options.CustomRawBytes)
    ELSE Request(method, path,
                 IF Len(options.CustomHeaders) > 0
                 THEN options.CustomHeaders ELSE reqHeaders,
                 <<>>)

\* ------------------------------------------------ response translation: values
\* Longest header list of a wire response.
MaxHeaders == 2

\* Headers a server sends: cookies, and content codings in several spellings.
WireHeaders ==
    {Header("Set-Cookie", "a"), Header("Set-Cookie", "b"),
     Header("Content-Encoding", "gzip"), Header("Content-Encoding", "GZIP"),
     Header("Content-Encoding", " gzip"), Header("Content-Encoding", "deflate")}

\* Header lists of wire responses, in wire order.
WireHeaderLists ==
    UNION {[1..n -> WireHeaders] : n \in 0..MaxHeaders}

\* The payload a server sends.
Payload == <<7, 8>>

\* compress/gzip, writing: the stream starts with the gzip magic bytes, and its
\* data differs from the bytes it encodes.
gzipEncode(b) == <<31, 139>> \o [i \in 1..Len(b) |-> 255 - b[i]]

\* Bodies of wire responses: the payload as it is, the payload gzip-encoded,
\* an empty body.
WireBodies == {Payload, gzipEncode(Payload), <<>>}

\* client.Response, the fields toHTTPResponse reads.
WireResponses == [Headers : WireHeaderLists, Body : WireBodies]

NoWireResponse == [Headers |-> <<>>, Body |-> <<>>]
NoHTTPResponse ==
    [err |-> "", Header |-> NoHeaders, Body |-> [gzip |-> FALSE, stream |-> <<>>]]

\* A step of the loop that keeps only the value read last for a key.
setValue(r, hh) ==
    [k \in DOMAIN r \cup {hh.Key} |-> IF k = hh.Key THEN <<hh.Value>> ELSE r[k]]

\* fromHeaders, the loop body: r[hh.Key] = append(r[hh.Key], hh.Value)
appendValue(r, hh) ==
    [k \in DOMAIN r \cup {hh.Key} |->
        IF k = hh.Key
        THEN Append(IF k \in DOMAIN r THEN r[k] ELSE <<>>, hh.Value)
        ELSE r[k]]

RECURSIVE fromHeadersLoop(_, _)
\* fromHeaders, the loop over the wire list from its first header on.
fromHeadersLoop(h, r) ==
    IF Len(h) = 0 THEN r ELSE fromHeadersLoop(Tail(h), appendValue(r, Head(h)))

\* fromHeaders (a nil map reads as the empty map)
fromHeaders(h) == fromHeadersLoop(h, NoHeaders)

RECURSIVE Join(_, _)
\* strings.Join
Join(elems, sep) ==
    IF Len(elems) = 0 THEN ""
    ELSE IF Len(elems) = 1 THEN elems[1]
    ELSE elems[1] \o sep \o Join(Tail(elems), sep)

\* headerValue
headerValue(headers, key) ==
    Join(IF key \in DOMAIN headers THEN headers[key] ELSE <<>>, " ")

\* A match that takes the upper-case spelling for gzip as well.
isGzipAnyCase(v) == v \in {"gzip", "GZIP"}

\* toHTTPResponse: headerValue(rheaders, "Content-Encoding") == "gzip"
isGzip(v) == v = "gzip"

\* gzip.NewReader: reads the stream's header, and fails on anything else.
gzipNewReader(rbody) ==
    IF Len(rbody) >= 2 /\ rbody[1] = 31 /\ rbody[2] = 139 THEN "" ELSE "gzip"

\* Reading a gzip.Reader to EOF: the bytes the stream encodes.
gzipRead(rbody) == [i \in 1..(Len(rbody) - 2) |-> 255 - rbody[i + 2]]

\* toHTTPResponse, on the headers and the body of the wire response.
toHTTPResponseOf(resp) ==
    LET rheaders == fromHeaders(resp.Headers) IN
    IF isGzip(headerValue(rheaders, "Content-Encoding"))
    THEN IF gzipNewReader(resp.Body) # ""
         THEN [err |-> gzipNewReader(resp.Body), Header |-> NoHeaders,
               Body |-> [gzip |-> FALSE, stream |-> <<>>]]
         ELSE [err |-> "", Header |-> rheaders,
               Body |-> [gzip |-> TRUE, stream |-> resp.Body]]
    ELSE [err |-> "", Header |-> rheaders,
          Body |-> [gzip |-> FALSE, stream |-> resp.Body]]

\* io.ReadAll(r.Body): through the gzip.Reader if there is one.
ReadAll(body) == IF body.gzip THEN gzipRead(body.stream) ELSE body.stream

\* ------------------------------------------------------ dial and TLS: values
\* Addresses, as the pieces of the address string: host and port, a host
\* without a port, a bracketed IPv6 literal with a port, an IP literal.
TlsAddrs ==
    {<<"a.example", ":", "443">>, <<"a.example">>,
     <<"[", ":", ":", "1", "]", ":", "443">>, <<"10.0.0.1", ":", "8443">>}

\* Options.SNI values: none, an override.
SNIs == {"", "sni.example"}

RECURSIVE LastIndex(_, _)
\* strings.LastIndex, on positions 1..Len(addr); 0 stands for -1.
LastIndex(addr, sep) ==
    IF Len(addr) = 0 THEN 0
    ELSE IF addr[Len(addr)] = sep THEN Len(addr)
    ELSE LastIndex(SubSeq(addr, 1, Len(addr) - 1), sep)

\* TlsHandshake: hostname := addr[:colonPos], all of addr without a colon.
hostname(addr) ==
    IF LastIndex(addr, ":") = 0 THEN addr
    ELSE SubSeq(addr, 1, LastIndex(addr, ":") - 1)

\* What a handshake may come to: with a deadline it may also time out.
HandshakeOutcomes(timeout) ==
    IF timeout > 0 THEN {"ok", "failed", "timedout"} ELSE {"ok", "failed"}

\* The error HandshakeContext returns for an outcome.
handshakeErr(outcome) ==
    IF outcome = "ok" THEN "" ELSE IF outcome = "failed" THEN "handshake" ELSE "timeout"

\* clientDial: the time bound its dial runs under, 0 for none: the timeout for
\* http when positive (net.DialTimeout, else net.Dial), none for https
\* (tls.Dial takes no timeout).
dialBound(protocol, timeout) ==
    IF protocol = "http" /\ timeout > 0 THEN timeout ELSE 0

\* An error path that returns without touching the raw connection.
rawLeftOpen(raw) == raw

\* TlsHandshake, the error path: conn.Close()
rawClosed(raw) == "closed"

\* ---------------------------------------------------------------- initial
InitDialer ==
    /\ conns = [a \in Addrs |-> <<>>]
    /\ mu = 0
    /\ cinfo = <<>>
    /\ dials = 0

InitCallers ==
    /\ pcP = [p \in Callers |-> "idle"]
    /\ addrP = [p \in Callers |-> "10.0.0.1:80"]
    /\ heldP = [p \in Callers |-> 0]
    /\ coldP = [p \in Callers |-> FALSE]
    /\ pending = [a \in Addrs |-> FALSE]
    /\ firstAfterRelease = [p \in Callers |-> FALSE]

\* No request is under construction.
NoBuild ==
    [pc |-> "idle", options |-> NoBuildOptions, headers |-> NoHeaders,
     uripath |-> "", url |-> [host |-> "", path |-> "", query |-> ""],
     addrs |-> <<>>, req |-> NoRequest, ios |-> <<>>]

\* No dial or handshake is in progress.
NoTls ==
    [pc |-> "idle", fn |-> "", protocol |-> "", addr |-> <<>>, timeout |-> 0,
     SNI |-> "", ServerName |-> <<>>, bound |-> 0, handshake |-> "none",
     raw |-> "none", ret |-> [conn |-> "nil", err |-> ""]]

\* No response is under translation.
NoTrans == [pc |-> "idle", resp |-> NoWireResponse, r |-> NoHTTPResponse]

\* ------------------------------------------ wrapper pools (response.go,
\* request.go)
\* The two wrapper types, each with its own sync.Pool and its own fasthttp pool.
Kinds == {"Response", "Request"}

\* Wrappers allocated per kind, and fasthttp objects allocated per kind.
MaxWrappers == 2
MaxObjects == 2

Wrappers == 1..MaxWrappers
Objects == 1..MaxObjects

\* No wrapper made yet, nothing in fasthttp's free pools. A wrapper is "none"
\* (not allocated), "out" (handed to a caller) or "pooled" (in responsePool or
\* requestPool); inner is the fasthttp object its pointer field holds.
NoWrap ==
    [state |-> [k \in Kinds |-> [w \in Wrappers |-> "none"]],
     inner |-> [k \in Kinds |-> [w \in Wrappers |-> 0]],
     free  |-> [k \in Kinds |-> {}],
     made  |-> [k \in Kinds |-> 0]]

InitPure ==
    /\ build = NoBuild
    /\ trans = NoTrans
    /\ tls = NoTls
    /\ wrap = NoWrap

\* NewClient(options): a fresh dialer and the caller's Options.
NewClient(options) ==
    /\ copts = options
    /\ pc = "idle"
    /\ call = NoCall
    /\ hops = <<>>
    /\ ret = NoRet
    /\ closedAddrs = {}

\* ------------------------------------------------------ pool callers (SpecPool)
\* An unlock put off to the return of dialTimeout: the mutex stays with its
\* holder when the lookup ends.
unlockDeferred(m) == m

\* dialTimeout: d.Unlock() at the end of the lookup, on the hit path and on
\* the miss path before clientDial.
unlockAfterLookup(m) == 0

\* A Release that returns with the mutex still locked.
unlockSkipped(m) == m

\* conn.Release: defer c.dialer.Unlock(), run when Release returns.
unlockOnReturn(m) == 0

\* Dial / DialTimeout: d.Lock()
dialTimeoutLock(p, a) ==
    /\ pcP[p] = "idle"
    /\ mu = 0
    /\ mu' = p
    /\ pcP' = [pcP EXCEPT ![p] = "dialLocked"]
    /\ addrP' = [addrP EXCEPT ![p] = a]
    /\ coldP' = [coldP EXCEPT ![p] = FALSE]
    /\ firstAfterRelease' = [firstAfterRelease EXCEPT ![p] = FALSE]
    /\ UNCHANGED <<conns, cinfo, dials, heldP, pending>>
    /\ UNCHANGED clientVars
    /\ UNCHANGED pureVars

\* Dial / DialTimeout: lookup under the lock, then d.Unlock()
dialTimeoutUnlock(p) ==
    /\ pcP[p] = "dialLocked"
    /\ mu = p
    /\ LET r == dialTimeoutLookup(conns, addrP[p]) IN
        /\ conns' = r.conns
        /\ mu' = unlockAfterLookup(mu)
        /\ pending' = [pending EXCEPT ![addrP[p]] = FALSE]
        /\ firstAfterRelease' = [firstAfterRelease EXCEPT ![p] = pending[addrP[p]]]
        /\ IF r.hit
           THEN /\ pcP' = [pcP EXCEPT ![p] = "holding"]
                /\ heldP' = [heldP EXCEPT ![p] = r.conn]
                /\ cinfo' = [cinfo EXCEPT ![r.conn].via = addrP[p]]
           ELSE /\ pcP' = [pcP EXCEPT ![p] = "dialNet"]
                /\ UNCHANGED <<heldP, cinfo>>
    /\ UNCHANGED <<dials, addrP, coldP>>
    /\ UNCHANGED clientVars
    /\ UNCHANGED pureVars

\* Dial / DialTimeout: clientDial outside the lock; the network connects or not.
clientDial(p) ==
    /\ pcP[p] = "dialNet"
    /\ dials < MaxConns
    /\ dials' = dials + 1
    /\ coldP' = [coldP EXCEPT ![p] = TRUE]
    /\ \E ok \in BOOLEAN :
        IF ok
        THEN LET id == newConn(cinfo) IN
             /\ cinfo' = withConn(cinfo, id, addrP[p])
             /\ heldP' = [heldP EXCEPT ![p] = id]
             /\ pcP' = [pcP EXCEPT ![p] = "holding"]
        ELSE /\ pcP' = [pcP EXCEPT ![p] = "idle"]
             /\ UNCHANGED <<cinfo, heldP>>
    /\ UNCHANGED <<conns, mu, addrP, pending, firstAfterRelease>>
    /\ UNCHANGED clientVars
    /\ UNCHANGED pureVars

\* conn.Release: c.dialer.Lock()
ReleaseLock(p) ==
    /\ pcP[p] = "holding"
    /\ mu = 0
    /\ Len(conns[cinfo[heldP[p]].remote]) < MaxIdle
    /\ mu' = p
    /\ pcP' = [pcP EXCEPT ![p] = "releaseLocked"]
    /\ UNCHANGED <<conns, cinfo, dials, addrP, heldP, coldP, pending, firstAfterRelease>>
    /\ UNCHANGED clientVars
    /\ UNCHANGED pureVars

\* conn.Release: the append, then the deferred Unlock
ReleaseUnlock(p) ==
    /\ pcP[p] = "releaseLocked"
    /\ mu = p
    /\ conns' = Release(conns, cinfo, heldP[p])
    /\ cinfo' = [cinfo EXCEPT ![heldP[p]].releases = @ + 1]
    /\ pending' = [pending EXCEPT ![cinfo[heldP[p]].via] = TRUE]
    /\ mu' = unlockOnReturn(mu)
    /\ pcP' = [pcP EXCEPT ![p] = "idle"]
    /\ heldP' = [heldP EXCEPT ![p] = 0]
    /\ coldP' = [coldP EXCEPT ![p] = FALSE]
    /\ firstAfterRelease' = [firstAfterRelease EXCEPT ![p] = FALSE]
    /\ UNCHANGED <<dials, addrP>>
    /\ UNCHANGED clientVars
    /\ UNCHANGED pureVars

InitPool ==
    /\ InitDialer
    /\ InitCallers
    /\ InitPure
    /\ NewClient([FollowRedirects |-> TRUE, MaxRedirects |-> 0])

NextPool ==
    \E p \in Callers :
        \/ \E a \in Addrs : dialTimeoutLock(p, a)
        \/ dialTimeoutUnlock(p)
        \/ clientDial(p)
        \/ ReleaseLock(p)
        \/ ReleaseUnlock(p)

SpecPool == InitPool /\ [][NextPool]_vars

\* The critical sections are straight-line code (a map lookup, an append): a
\* caller that holds the mutex goes on to its Unlock.
FairPool ==
    \A p \in Callers :
        WF_vars(dialTimeoutUnlock(p)) /\ WF_vars(ReleaseUnlock(p))

\* The addresses dialled when the mutex is followed: a host name and the IP
\* address it resolves to, which share one collection of the registry, so a
\* Dial finds it filled (hit), emptied again, or never filled (miss).
LockAddrs == {"hostA:80", "10.0.0.1:80"}

NextPoolFair ==
    \E p \in Callers :
        \/ \E a \in LockAddrs : dialTimeoutLock(p, a)
        \/ dialTimeoutUnlock(p)
        \/ clientDial(p)
        \/ ReleaseLock(p)
        \/ ReleaseUnlock(p)

SpecPoolFair == InitPool /\ [][NextPoolFair]_vars /\ FairPool

\* ------------------------------------------------------------- Client (Spec)
\* The caller is one goroutine: calls are synchronous, and it closes the bodies
\* of the responses it was given between calls.

\* A failure return that hands back the response built so far with the error.
errRetPartial(e, c) == [kind |-> "resp", status |-> 0, err |-> e, conn |-> c]

\* Client.do: return nil, err
errRet(e, c) == [kind |-> "err", status |-> 0, err |-> e, conn |-> c]

\* A return that reports a response of the redirect class as an error.
respRetRedirectIsError(status, c) ==
    IF IsRedirect(status)
    THEN errRet("redirects", c)
    ELSE [kind |-> "resp", status |-> status, err |-> "", conn |-> c]

\* Client.do: return r, err at the end of do, where err is nil.
respRet(status, c) == [kind |-> "resp", status |-> status, err |-> "", conn |-> c]

\* Client.DoRaw (and Get, Head, Post, Do, which call it)
DoRaw(method, url, data) ==
    /\ pc = "idle"
    /\ pc' = "do"
    /\ call' = [api |-> "DoRaw", method |-> method, url |-> url,
                body |-> [data |-> data, pos |-> 0],
                opts |-> copts,
                rs |-> [FollowRedirects |-> TRUE,
                        MaxRedirects |-> copts.MaxRedirects, Current |-> 0],
                conn |-> 0, dialed |-> FALSE, resp |-> NoResp,
                closing |-> NoClosing]
    /\ hops' = <<>>
    /\ ret' = NoRet
    /\ UNCHANGED <<copts, closedAddrs>>
    /\ UNCHANGED <<dialerVars, callerVars>>
    /\ UNCHANGED pureVars

\* Client.DoRawWithOptions
DoRawWithOptions(method, url, data, options) ==
    /\ pc = "idle"
    /\ pc' = "do"
    /\ call' = [api |-> "DoRawWithOptions", method |-> method, url |-> url,
                body |-> [data |-> data, pos |-> 0],
                opts |-> options,
                rs |-> [FollowRedirects |-> options.FollowRedirects,
                        MaxRedirects |-> copts.MaxRedirects, Current |-> 0],
                conn |-> 0, dialed |-> FALSE, resp |-> NoResp,
                closing |-> NoClosing]
    /\ hops' = <<>>
    /\ ret' = NoRet
    /\ UNCHANGED <<copts, closedAddrs>>
    /\ UNCHANGED <<dialerVars, callerVars>>
    /\ UNCHANGED pureVars

\* Client.do, entry of a hop: parse the URL, then getConn up to the dialer's
\* registry lookup (Lock, lookup, Unlock).
doEnter ==
    /\ pc = "do"
    /\ IF ParseRequestURI(call.url).err # ""
       THEN /\ pc' = "returned"
            /\ ret' = errRet(ParseRequestURI(call.url).err, 0)
            /\ UNCHANGED <<call, conns, cinfo>>
       ELSE LET r == dialTimeoutLookup(conns, ParseRequestURI(call.url).u.host) IN
            /\ conns' = r.conns
            /\ ret' = ret
            /\ IF r.hit
               THEN /\ pc' = "write"
                    /\ call' = [call EXCEPT !.conn = r.conn, !.dialed = FALSE]
                    /\ cinfo' = [cinfo EXCEPT ![r.conn].via = call.url.host,
                                              ![r.conn].body = "none"]
               ELSE /\ pc' = "dial"
                    /\ call' = [call EXCEPT !.conn = 0, !.dialed = FALSE]
                    /\ cinfo' = cinfo
    /\ UNCHANGED <<mu, dials, copts, hops, closedAddrs>>
    /\ UNCHANGED callerVars
    /\ UNCHANGED pureVars

\* Client.getConn, the cold path: clientDial; the network connects or not.
doDial ==
    /\ pc = "dial"
    /\ dials < MaxConns
    /\ dials' = dials + 1
    /\ \E ok \in BOOLEAN :
        IF ok
        THEN LET id == newConn(cinfo) IN
             /\ cinfo' = withConn(cinfo, id, call.url.host)
             /\ call' = [call EXCEPT !.conn = id, !.dialed = TRUE]
             /\ pc' = "write"
             /\ ret' = ret
        ELSE /\ pc' = "returned"
             /\ ret' = errRet("dial", 0)
             /\ UNCHANGED <<cinfo, call>>
    /\ UNCHANGED <<conns, mu, copts, hops, closedAddrs>>
    /\ UNCHANGED callerVars
    /\ UNCHANGED pureVars

\* Client.do: toRequest, SetDeadline, conn.WriteRequest
doWrite ==
    /\ pc = "write"
    /\ \E ok \in BOOLEAN :
        IF ok
        THEN LET w == WriteRequest(call.body) IN
             /\ call' = [call EXCEPT !.body = w.body]
             /\ hops' = Append(hops, [method |-> call.method,
                                      host |-> call.url.host,
                                      path |-> call.url.path,
                                      body |-> w.written,
                                      conn |-> call.conn,
                                      protocol |-> protocolOf(call.url)])
             /\ pc' = "read"
             /\ ret' = ret
        ELSE /\ pc' = "returned"
             /\ ret' = errRet("write", call.conn)
             /\ UNCHANGED <<call, hops>>
    /\ UNCHANGED <<copts, closedAddrs>>
    /\ UNCHANGED <<dialerVars, callerVars>>
    /\ UNCHANGED pureVars

\* Client.do: conn.ReadResponse, then toHTTPResponse (gzip.NewReader may fail)
doRead ==
    /\ pc = "read"
    /\ \E failure \in {"", "read", "translate"}, resp \in Responses :
        IF failure # ""
        THEN /\ pc' = "returned"
             /\ ret' = errRet(failure, call.conn)
             /\ UNCHANGED <<call, hops, cinfo>>
        ELSE /\ call' = [call EXCEPT !.resp = resp]
             /\ hops' = hops
             /\ cinfo' = [cinfo EXCEPT ![call.conn].body = "open"]
             /\ pc' = "check"
             /\ ret' = ret
    /\ UNCHANGED <<conns, mu, dials, copts, closedAddrs>>
    /\ UNCHANGED callerVars
    /\ UNCHANGED pureVars

\* Client.do, the redirect branch: drain, close, resolve Location, recurse.
doRedirect ==
    /\ pc = "check"
    /\ shouldRedirect(call.resp.status, call.rs)
    /\ cinfo' = [cinfo EXCEPT ![call.conn] = drainAndClose(@)]
    /\ \E drainErr \in {"", "drain"}, closeErr \in {"", "close"} :
        LET err == firstErr(drainErr, closeErr) IN
        IF err # ""
        THEN /\ pc' = "returned"
             /\ ret' = errRet(err, call.conn)
             /\ call' = [call EXCEPT !.closing =
                                  [drain |-> drainErr, close |-> closeErr]]
        ELSE /\ call' = [call EXCEPT
                            !.url = redirectUrl(call.url, call.resp.loc),
                            !.method = redirectMethod(call.method, call.resp.status),
                            !.rs.Current = @ + 1,
                            !.conn = 0, !.dialed = FALSE]
             /\ pc' = "do"
             /\ ret' = ret
    /\ UNCHANGED <<conns, mu, dials, copts, hops, closedAddrs>>
    /\ UNCHANGED callerVars
    /\ UNCHANGED pureVars

\* Client.do: return r, err
doReturn ==
    /\ pc = "check"
    /\ ~shouldRedirect(call.resp.status, call.rs)
    /\ pc' = "returned"
    /\ ret' = respRet(call.resp.status, call.conn)
    /\ cinfo' = [cinfo EXCEPT ![call.conn].body = "returned"]
    /\ UNCHANGED <<conns, mu, dials, copts, call, hops, closedAddrs>>
    /\ UNCHANGED callerVars
    /\ UNCHANGED pureVars

\* The call has returned: its result is with the caller, its frames are gone.
Returned ==
    /\ pc = "returned"
    /\ pc' = "idle"
    /\ call' = NoCall
    /\ hops' = <<>>
    /\ ret' = NoRet
    /\ UNCHANGED <<copts, closedAddrs>>
    /\ UNCHANGED <<dialerVars, callerVars>>
    /\ UNCHANGED pureVars

\* The caller reads a returned body to the end and closes it: readCloser.Close.
CloseBody(c) ==
    /\ pc = "idle"
    /\ cinfo[c].body = "returned"
    /\ cinfo' = [cinfo EXCEPT ![c] = [readCloserClose(@) EXCEPT !.body = "closed"]]
    /\ closedAddrs' = closedAddrs \cup {cinfo[c].via}
    /\ UNCHANGED <<conns, mu, dials, copts, pc, call, hops, ret>>
    /\ UNCHANGED callerVars
    /\ UNCHANGED pureVars

Init ==
    /\ InitDialer
    /\ InitCallers
    /\ InitPure
    /\ \E options \in OptionsSet : NewClient(options)

Next ==
    \/ \E req \in Requests, url \in Urls :
           DoRaw(req.method, url, req.data)
    \/ \E req \in Requests, url \in Urls, options \in OptionsSet :
           DoRawWithOptions(req.method, url, req.data, options)
    \/ doEnter
    \/ doDial
    \/ doWrite
    \/ doRead
    \/ doRedirect
    \/ doReturn
    \/ Returned
    \/ \E c \in 1..Len(cinfo) : CloseBody(c)

Spec == Init /\ [][Next]_vars

\* ------------------------------------- request construction (SpecRequest)
\* Client.do, one hop up to ReadResponse, for the URL of the hop and the
\* header map as the previous hops left it: automatic Host, the path, getConn
\* for the host (a new connection, without a deadline), toRequest,
\* SetDeadline, WriteRequest, ReadResponse; a dial, write or read failure
\* returns. The clock reads the number of the hop; ios lists, in order, the
\* write and the read of each hop with the deadline its connection had at
\* that time.
doHop(headers, url, uripath, options, addrs) ==
    LET host == url.host
        hs == automaticHost(headers, host, options)
        now == Len(addrs) + 1
        deadline == setDeadline(NoDeadline, now, options)
    IN
    \E reqHeaders \in toHeaders(hs), ok \in BOOLEAN :
        build' = IF ok
                 THEN [pc |-> "written", options |-> options, headers |-> hs,
                       uripath |-> uripath, url |-> url,
                       addrs |-> Append(addrs, host),
                       req |-> toRequest("GET", effectivePath(url, uripath),
                                         reqHeaders, options),
                       ios |-> build.ios \o
                               <<[op |-> "write", hop |-> now, deadline |-> deadline],
                                 [op |-> "read", hop |-> now, deadline |-> deadline]>>]
                 ELSE NoBuild

\* DoRawWithOptions: the first hop of a call.
doFirstHop(headers, url, uripath, options) ==
    /\ build.pc = "idle"
    /\ doHop(headers, url, uripath, options, <<>>)
    /\ UNCHANGED <<dialerVars, callerVars, clientVars, trans, tls, wrap>>

\* Client.do, the recursive call: the hop that follows a redirect to url.
doNextHop(url) ==
    /\ build.pc = "written"
    /\ Len(build.addrs) < MaxBuildHops
    /\ doHop(build.headers, url, build.uripath, build.options, build.addrs)
    /\ UNCHANGED <<dialerVars, callerVars, clientVars, trans, tls, wrap>>

\* Client.do: return r, err
doHopReturn ==
    /\ build.pc = "written"
    /\ build' = NoBuild
    /\ UNCHANGED <<dialerVars, callerVars, clientVars, trans, tls, wrap>>

InitRequest ==
    /\ InitDialer
    /\ InitCallers
    /\ NewClient([FollowRedirects |-> TRUE, MaxRedirects |-> 0])
    /\ InitPure

NextRequest ==
    \/ \E headers \in HeaderMaps, url \in BuildUrls, uripath \in UriPaths,
           options \in BuildOptionsSet :
           doFirstHop(headers, url, uripath, options)
    \/ \E url \in BuildUrls : doNextHop(url)
    \/ doHopReturn

SpecRequest == InitRequest /\ [][NextRequest]_vars

\* ------------------------------------- response translation (SpecTranslate)
\* toHTTPResponse(conn, resp)
toHTTPResponse(resp) ==
    /\ trans.pc = "idle"
    /\ trans' = [pc |-> "done", resp |-> resp, r |-> toHTTPResponseOf(resp)]
    /\ UNCHANGED <<dialerVars, callerVars, clientVars, build, tls, wrap>>

\* The caller is done with the translated response.
toHTTPResponseDone ==
    /\ trans.pc = "done"
    /\ trans' = NoTrans
    /\ UNCHANGED <<dialerVars, callerVars, clientVars, build, tls, wrap>>

NextTranslate ==
    \/ \E resp \in WireResponses : toHTTPResponse(resp)
    \/ toHTTPResponseDone

SpecTranslate == InitRequest /\ [][NextTranslate]_vars

\* ---------------------------------------------- dial and TLS (SpecTls)
\* TlsHandshake(conn, addr, timeout), on an open raw connection.
TlsHandshake(addr, timeout) ==
    /\ tls.pc = "idle"
    /\ \E outcome \in HandshakeOutcomes(timeout) :
        tls' = [pc |-> "done", fn |-> "TlsHandshake", protocol |-> "https",
                addr |-> addr, timeout |-> timeout, SNI |-> "",
                ServerName |-> hostname(addr), bound |-> timeout,
                handshake |-> outcome,
                raw |-> IF handshakeErr(outcome) # ""
                        THEN rawClosed("open") ELSE "open",
                ret |-> IF handshakeErr(outcome) # ""
                        THEN [conn |-> "nil", err |-> handshakeErr(outcome)]
                        ELSE [conn |-> "tls", err |-> ""]]
    /\ UNCHANGED <<dialerVars, callerVars, clientVars, build, trans, wrap>>

\* clientDial(protocol, addr, timeout, options): net.Dial or net.DialTimeout
\* for http; tls.Dial for https, which connects, handshakes without a
\* deadline, and closes the socket it made if the handshake fails.
clientDialCall(protocol, addr, timeout, sni) ==
    /\ tls.pc = "idle"
    /\ \E connected \in BOOLEAN, outcome \in HandshakeOutcomes(0) :
        tls' = [pc |-> "done", fn |-> "clientDial", protocol |-> protocol,
                addr |-> addr, timeout |-> timeout, SNI |-> sni,
                ServerName |-> IF protocol = "http" THEN <<>>
                               ELSE IF sni # "" THEN <<sni>> ELSE hostname(addr),
                bound |-> dialBound(protocol, timeout),
                handshake |-> IF protocol = "http" \/ ~connected
                              THEN "none" ELSE outcome,
                raw |-> IF ~connected THEN "none"
                        ELSE IF protocol = "http" \/ outcome = "ok"
                        THEN "open" ELSE "closed",
                ret |-> IF ~connected THEN [conn |-> "nil", err |-> "dial"]
                        ELSE IF protocol = "http" THEN [conn |-> "plain", err |-> ""]
                        ELSE IF outcome = "ok" THEN [conn |-> "tls", err |-> ""]
                        ELSE [conn |-> "nil", err |-> handshakeErr(outcome)]]
    /\ UNCHANGED <<dialerVars, callerVars, clientVars, build, trans, wrap>>

\* The call has returned to its caller.
tlsReturned ==
    /\ tls.pc = "done"
    /\ tls' = NoTls
    /\ UNCHANGED <<dialerVars, callerVars, clientVars, build, trans, wrap>>

NextTls ==
    \/ \E addr \in TlsAddrs, timeout \in 0..MaxTimeout : TlsHandshake(addr, timeout)
    \/ \E protocol \in {"http", "https"}, addr \in TlsAddrs,
           timeout \in 0..MaxTimeout, sni \in SNIs :
           clientDialCall(protocol, addr, timeout, sni)
    \/ tlsReturned

SpecTls == InitRequest /\ [][NextTls]_vars

\* ---------------------------------------------- wrapper pools (SpecWrappers)
\* sync.Pool.Get on responsePool / requestPool: one of the pooled wrappers, or
\* nil (0), which a sync.Pool may return at any Get.
poolGet(k) == {w \in Wrappers : wrap.state[k][w] = "pooled"} \cup {0}

\* fasthttp.AcquireResponse() / fasthttp.AcquireRequest(): an object taken out
\* of fasthttp's free pool, or a newly allocated one.
fasthttpAcquire(k) ==
    wrap.free[k] \cup
        (IF wrap.made[k] < MaxObjects THEN {wrap.made[k] + 1} ELSE {})

\* fasthttp.ReleaseResponse(obj) / fasthttp.ReleaseRequest(obj): the object
\* goes into fasthttp's free pool.
fasthttpRelease(free, obj) == free \cup {obj}

\* &Response{Response: obj} / &Request{Req: obj}: the next wrapper not yet
\* allocated.
newWrapper(k) ==
    {w \in Wrappers : /\ wrap.state[k][w] = "none"
                      /\ \A v \in Wrappers : v < w => wrap.state[k][v] # "none"}

\* AcquireResponse / AcquireRequest: the pooled wrapper as it is, or, when Get
\* returned nil, a new wrapper around an object acquired from fasthttp.
AcquireWrapper(k) ==
    /\ \E v \in poolGet(k) :
        IF v = 0
        THEN \E w \in newWrapper(k), obj \in fasthttpAcquire(k) :
                wrap' = [wrap EXCEPT !.state[k][w] = "out",
                                     !.inner[k][w] = obj,
                                     !.free[k] = @ \ {obj},
                                     !.made[k] = IF obj > @ THEN obj ELSE @]
        ELSE wrap' = [wrap EXCEPT !.state[k][v] = "out"]
    /\ UNCHANGED <<dialerVars, callerVars, clientVars, build, trans, tls>>

\* Response.Reset / Request.Reset: the wrapper's fasthttp object is released to
\* fasthttp; the wrapper keeps pointing at it.
Reset(w, k) ==
    [wrap EXCEPT !.free[k] = fasthttpRelease(@, wrap.inner[k][w])]

\* ReleaseResponse / ReleaseRequest, on a wrapper a caller holds: Reset, then
\* Put into the wrapper pool.
ReleaseWrapper(k, w) ==
    /\ wrap.state[k][w] = "out"
    /\ wrap' = [Reset(w, k) EXCEPT !.state[k][w] = "pooled"]
    /\ UNCHANGED <<dialerVars, callerVars, clientVars, build, trans, tls>>

AcquireResponse == AcquireWrapper("Response")

ReleaseResponse(w) == ReleaseWrapper("Response", w)

AcquireRequest == AcquireWrapper("Request")

ReleaseRequest(w) == ReleaseWrapper("Request", w)

NextWrappers ==
    \/ AcquireResponse
    \/ \E w \in Wrappers : ReleaseResponse(w)
    \/ AcquireRequest
    \/ \E w \in Wrappers : ReleaseRequest(w)

SpecWrappers == InitRequest /\ [][NextWrappers]_vars

\* ------------------------------------------------------------------ claims
\* Callers to which connection c is checked out.
Holders(c) == {p \in Callers : pcP[p] \in {"holding", "releaseLocked"} /\ heldP[p] = c}

\* Places of the registry that hold connection c.
Places(c) ==
    {x \in UNION {{<<a, i>> : i \in DOMAIN conns[a]} : a \in Addrs} :
        conns[x[1]][x[2]] = c}

\* C1: every connection is either checked out to exactly one caller or present
\* exactly once in the registry, never both and never twice.
C1_OwnedOrIdleOnce ==
    \A c \in 1..Len(cinfo) : Cardinality(Holders(c)) + Cardinality(Places(c)) = 1

\* C2: a call that follows redirects against a server that always redirects
\* returns the (n+1)-th redirect response, n = MaxRedirects: it has sent exactly
\* n + 1 requests.
C2_FollowsExactlyMaxRedirects ==
    (pc = "returned" /\ ret.kind = "resp" /\ IsRedirect(ret.status)
        /\ call.opts.FollowRedirects /\ call.rs.FollowRedirects
        /\ call.opts.MaxRedirects = call.rs.MaxRedirects)
    => Len(hops) = call.rs.MaxRedirects + 1

\* C3: the first Dial for an address after a connection acquired for that
\* address was released performs no network dial.
C3_NextDialReusesReleased ==
    \A p \in Callers : ~(firstAfterRelease[p] /\ coldP[p])

\* C4: once a call to an address has completed and the caller has closed the
\* response body, a later call to that address performs no new dial.
C4_LaterCallReusesConnection ==
    (call.rs.Current = 0 /\ call.dialed)
    => call.url.host \notin closedAddrs

\* C5: a connection made by a cold dial is new: it is checked out to no other
\* caller and is not in the registry.
C5_ColdDialsDistinct ==
    \A p \in Callers :
        (pcP[p] \in {"holding", "releaseLocked"} /\ coldP[p])
        => /\ Holders(heldP[p]) = {p}
           /\ Places(heldP[p]) = {}

\* Two callers hold connections that both came from cold dials of one address.
C5_Witness ==
    \E p, q \in Callers :
        /\ p # q
        /\ pcP[p] = "holding" /\ pcP[q] = "holding"
        /\ coldP[p] /\ coldP[q]
        /\ addrP[p] = addrP[q]

\* C6: with FollowRedirects false in the Options governing the call, at most
\* one request is sent.
C6_NoFollowSendsOneRequest ==
    ~call.opts.FollowRedirects => Len(hops) <= 1

\* C7: the body bytes written on hop N+1 are those written on hop N.
C7_BodyIdenticalAcrossHops ==
    \A i \in 1..(Len(hops) - 1) : hops[i + 1].body = hops[i].body

\* C8: every hop of a call is sent with the method of the first hop.
C8_MethodNeverAltered ==
    \A i \in 1..Len(hops) : hops[i].method = hops[1].method

\* A POST redirected by a 303 response has written its second hop.
C8_Witness ==
    /\ pc = "read"
    /\ Len(hops) = 2
    /\ hops[1].method = "POST"
    /\ call.resp.status = 303

\* C9: when a call returns an error after a connection was acquired for the
\* hop, that connection has been closed or released.
C9_ErrorClosesConnection ==
    (ret.kind = "err" /\ ret.conn # 0)
    => cinfo[ret.conn].closes + cinfo[ret.conn].releases >= 1

\* C10: a connection is closed or released at most once, and exactly once when
\* its response body was closed, by the caller or by the redirect loop.
C10_ClosedExactlyOnce ==
    \A c \in 1..Len(cinfo) :
        /\ cinfo[c].closes + cinfo[c].releases <= 1
        /\ cinfo[c].body \in {"closed", "drained"}
               => cinfo[c].closes + cinfo[c].releases = 1

\* One body was closed by the redirect loop and another by the caller.
C10_Witness ==
    \E c, d \in 1..Len(cinfo) :
        cinfo[c].body = "drained" /\ cinfo[d].body = "closed"

\* C11: while a hop of a call is in progress (from its dial on), the response
\* body of every earlier hop of that call has been drained and closed: the
\* call has at most one hop in flight.
C11_HopsSequential ==
    \A i \in 1..Len(hops) :
        hops[i].conn # call.conn
        => /\ cinfo[hops[i].conn].body = "drained"
           /\ cinfo[hops[i].conn].closes = 1

\* The second hop of a call is being dialled, or has been written.
C11_Witness ==
    /\ call.rs.Current = 1
    /\ Len(hops) >= 1
    /\ pc \in {"dial", "read"}

\* C12: when the loop follows a redirect, the URL of the next hop is, for a
\* Location that starts with "/", the scheme and host of the hop that received
\* the redirect followed by that Location; any other Location is the URL of
\* the next hop as it stands.
C12_LocationResolved ==
    (pc = "do" /\ call.rs.Current > 0 /\ Len(hops) >= 1)
    => LET h == hops[Len(hops)]
           loc == call.resp.loc
       IN  IF loc.rel
           THEN call.url = Url(h.protocol, h.host, loc.url.path)
           ELSE call.url = loc.url

\* A hop made over https received a Location that is a path, and the loop is
\* about to start the next hop.
C12_Witness ==
    /\ pc = "do" /\ call.rs.Current > 0 /\ Len(hops) >= 1
    /\ call.resp.loc.rel
    /\ hops[Len(hops)].protocol = "https"
    /\ call.url = Url("https", "10.0.0.2:80", "/new")

\* C13: when a response of the redirect class has arrived and the redirect
\* bound no longer allows following it, the call returns that response with a
\* nil error, and the client has neither drained nor closed its body.
C13_ExhaustionReturnsResponse ==
    [][(/\ pc = "check"
        /\ IsRedirect(call.resp.status)
        /\ call.rs.FollowRedirects
        /\ call.rs.Current > call.rs.MaxRedirects)
       => (/\ pc' = "returned"
           /\ ret'.kind = "resp" /\ ret'.err = ""
           /\ ret'.status = call.resp.status /\ ret'.conn = call.conn
           /\ cinfo'[call.conn].body = "returned"
           /\ cinfo'[call.conn].closes = 0
           /\ Len(hops') = call.rs.Current + 1)]_vars

\* A call that followed redirects up to its bound returned the redirect it
\* received after that.
C13_Witness ==
    /\ pc = "returned" /\ ret.kind = "resp" /\ IsRedirect(ret.status)
    /\ call.rs.FollowRedirects /\ call.rs.Current > call.rs.MaxRedirects
    /\ Len(hops) = 2

\* C14: every call returns either a response with a nil error or a nil
\* response with an error, never both and never neither, whichever step of
\* whichever hop it returns from.
C14_ResponseXorError ==
    pc = "returned"
    => \/ ret.kind = "resp" /\ ret.err = "" /\ ret.status \in Statuses
       \/ ret.kind = "err" /\ ret.err # "" /\ ret.status = 0

\* The second hop of a call failed after its request was written.
C14_Witness ==
    /\ pc = "returned" /\ ret.kind = "err" /\ ret.err = "translate"
    /\ call.rs.Current = 1 /\ Len(hops) = 2

\* C15: a hop whose URL does not parse ends the call at once with the parse
\* error: the hop acquires and dials no connection, writes nothing, leaves the
\* registry as it was, and the call makes no further hop.
C15_ParseFailureIsImmediate ==
    [][(pc = "do" /\ ~call.url.valid)
       => (/\ pc' = "returned"
           /\ ret' = errRet("parse", 0)
           /\ conns' = conns /\ cinfo' = cinfo /\ dials' = dials
           /\ hops' = hops /\ call' = call)]_vars

\* The hop that followed a redirect without a usable Location failed to parse.
C15_Witness ==
    /\ pc = "returned" /\ ret.err = "parse"
    /\ call.rs.Current = 1 /\ Len(hops) = 1 /\ call.conn = 0

\* C16: a caller that is dialling the network (TCP connect, TLS handshake) or
\* that has a connection checked out to write and read on does not hold the
\* dialer's mutex; the mutex is held only by a caller inside the registry
\* lookup of dialTimeout or inside the append of Release.
C16_LockNotHeldAcrossIO ==
    \A p \in Callers :
        /\ pcP[p] \in {"dialNet", "holding"} => mu # p
        /\ mu = p => pcP[p] \in {"dialLocked", "releaseLocked"}

\* One caller is dialling the network while another is inside the registry
\* lookup with the mutex.
C16_Witness ==
    \E p, q \in Callers :
        /\ pcP[p] = "dialNet"
        /\ pcP[q] = "dialLocked" /\ mu = q

\* Values of the Host headers of the request handed to WriteRequest.
HostValues(req) ==
    LET hs == SelectSeq(req.Headers, LAMBDA x : x.Key = "Host")
    IN  [i \in 1..Len(hs) |-> hs[i].Value]

\* The address passed to the dialer for the hop just written.
DialedAddr == build.addrs[Len(build.addrs)]

\* C17, as stated: with AutomaticHostHeader set, the request of every hop
\* carries one Host header, whose value is the address passed to the dialer
\* for that hop.
C17_HostIsDialedAddress ==
    (build.pc = "written" /\ build.options.AutomaticHostHeader)
    => HostValues(build.req) = <<DialedAddr>>

\* C17, amended: the same, for calls that supply neither CustomHeaders nor
\* CustomRawBytes.
C17_HostIsDialedAddressUnlessCustom ==
    (/\ build.pc = "written"
     /\ build.options.AutomaticHostHeader
     /\ Len(build.options.CustomHeaders) = 0
     /\ Len(build.options.CustomRawBytes) = 0)
    => HostValues(build.req) = <<DialedAddr>>

\* A call without custom headers or raw bytes was redirected to another host,
\* and its second hop was written with the automatic Host.
C17_Witness ==
    /\ build.pc = "written"
    /\ build.options.AutomaticHostHeader
    /\ Len(build.options.CustomHeaders) = 0
    /\ Len(build.options.CustomRawBytes) = 0
    /\ Len(build.addrs) = 2 /\ build.addrs[1] # build.addrs[2]
    /\ HostValues(build.req) = <<"hostB">>

\* Values of the headers of wire list h that carry key k, in wire order.
WireValues(h, k) ==
    LET hs == SelectSeq(h, LAMBDA x : x.Key = k)
    IN  [i \in 1..Len(hs) |-> hs[i].Value]

\* C18: the header mapping of a translated response has exactly the keys of
\* the wire header list, and under each key the values the wire list carries
\* for it, all of them, in wire order.
C18_HeaderMultiplicityAndOrder ==
    (trans.pc = "done" /\ trans.r.err = "")
    => /\ DOMAIN trans.r.Header =
            {trans.resp.Headers[i].Key : i \in DOMAIN trans.resp.Headers}
       /\ \A k \in DOMAIN trans.r.Header :
            trans.r.Header[k] = WireValues(trans.resp.Headers, k)

\* A response with two Set-Cookie headers was translated into one entry with
\* both values in wire order.
C18_Witness ==
    /\ trans.pc = "done" /\ trans.r.err = ""
    /\ trans.resp.Headers = <<Header("Set-Cookie", "b"), Header("Set-Cookie", "a")>>
    /\ trans.r.Header["Set-Cookie"] = <<"b", "a">>

\* C20: a translated response has its body wrapped in a gzip-decompressing
\* stream exactly when the wire response carries Content-Encoding with the one
\* value gzip; with any other value, or none, reading the body gives the wire
\* body as it is, and reading a wrapped body gives the bytes that were encoded.
C20_GzipOnlyOnExactMatch ==
    (trans.pc = "done" /\ trans.r.err = "")
    => /\ trans.r.Body.gzip
            <=> WireValues(trans.resp.Headers, "Content-Encoding") = <<"gzip">>
       /\ ~trans.r.Body.gzip => ReadAll(trans.r.Body) = trans.resp.Body
       /\ (trans.r.Body.gzip /\ trans.resp.Body = gzipEncode(Payload))
            => ReadAll(trans.r.Body) = Payload

\* A gzip-encoded payload sent with Content-Encoding: gzip after a cookie was
\* translated, and its body reads as the payload.
C20_Witness ==
    /\ trans.pc = "done" /\ trans.r.err = ""
    /\ trans.resp.Headers =
           <<Header("Set-Cookie", "a"), Header("Content-Encoding", "gzip")>>
    /\ trans.r.Body.gzip
    /\ ReadAll(trans.r.Body) = Payload
    /\ trans.resp.Body # Payload

\* C19: when a TLS handshake has failed or timed out, the raw socket is closed
\* and the call returns the error and no transport; when it has succeeded,
\* the call returns the secure transport and the raw socket is open.
C19_FailedHandshakeClosesSocket ==
    tls.pc = "done"
    => /\ tls.handshake \in {"failed", "timedout"}
            => /\ tls.raw = "closed"
               /\ tls.ret.conn = "nil"
               /\ tls.ret.err # ""
       /\ tls.handshake = "ok"
            => /\ tls.raw = "open"
               /\ tls.ret = [conn |-> "tls", err |-> ""]

\* A handshake bounded by a timeout ran out of time in TlsHandshake.
C19_Witness ==
    /\ tls.pc = "done" /\ tls.fn = "TlsHandshake"
    /\ tls.timeout > 0 /\ tls.handshake = "timedout"
    /\ tls.raw = "closed" /\ tls.ret = [conn |-> "nil", err |-> "timeout"]

\* Position of a step within its hop, counted down to the return.
Stage(p) ==
    CASE p = "do" -> 5 [] p = "dial" -> 4 [] p = "write" -> 3
      [] p = "read" -> 2 [] p = "check" -> 1 [] OTHER -> 0

\* Steps a call can still take at most: the hops its redirect counter leaves
\* it, and the steps left in the current hop.
Rank(c, p) == (c.rs.MaxRedirects + 1 - c.rs.Current) * 6 + Stage(p)

\* C21: a call terminates after a number of hops bounded by MaxRedirects: its
\* redirect counter starts at 0, every step of the call lowers a measure that
\* never goes below 0, the counter rises by exactly 1 on a followed redirect
\* and by nothing else, and the requests written never exceed MaxRedirects + 2.
C21_CallTerminates ==
    [][/\ (pc = "idle" /\ pc' # "idle") => call'.rs.Current = 0
       /\ (pc # "idle" /\ pc' # "idle")
            => /\ Rank(call', pc') < Rank(call, pc)
               /\ Rank(call', pc') >= 0
               /\ call'.rs.Current =
                     IF pc = "check" /\ pc' = "do"
                     THEN call.rs.Current + 1 ELSE call.rs.Current
               /\ call'.rs.MaxRedirects = call.rs.MaxRedirects
               /\ Len(hops') <= call.rs.MaxRedirects + 2]_vars

\* A server that answers every hop with a redirect: the call returned after
\* MaxRedirects + 2 requests.
C21_Witness ==
    /\ pc = "returned" /\ ret.kind = "resp" /\ IsRedirect(ret.status)
    /\ call.rs.Current = call.rs.MaxRedirects + 1
    /\ Len(hops) = call.rs.MaxRedirects + 2

\* C22: the step that follows a redirect drains the body and closes it, the
\* close being made whatever the drain returned; if either failed the call
\* returns an error and no response and starts no further hop, the error being
\* the drain's when both failed; if neither failed the next hop starts.
C22_DrainThenCloseFirstError ==
    [][(pc = "check" /\ shouldRedirect(call.resp.status, call.rs))
       => /\ cinfo'[call.conn].body = "drained"
          /\ cinfo'[call.conn].closes = cinfo[call.conn].closes + 1
          /\ hops' = hops /\ dials' = dials
          /\ IF call'.closing = NoClosing
             THEN pc' = "do"
             ELSE /\ pc' = "returned"
                  /\ ret'.kind = "err"
                  /\ ret'.err = IF call'.closing.drain # ""
                                THEN call'.closing.drain
                                ELSE call'.closing.close]_vars

\* The drain and the close of a redirect's body both failed, and the call
\* returned the drain error.
C22_Witness ==
    /\ pc = "returned" /\ ret.err = "drain"
    /\ call.closing = [drain |-> "drain", close |-> "close"]
    /\ cinfo[call.conn].closes = 1

\* C23: the dial clientDial makes runs under the timeout it was given as its
\* time bound, for http and for https alike, and under no bound when the
\* timeout is 0.
C23_DialBoundedByTimeout ==
    (tls.pc = "done" /\ tls.fn = "clientDial") => tls.bound = tls.timeout

\* C24: every write and every read of a hop is made on a connection whose
\* deadline is the time of the hop plus Timeout when Timeout > 0, and on a
\* connection without a deadline when Timeout = 0.
C24_DeadlineBeforeWriteAndRead ==
    \A i \in 1..Len(build.ios) :
        build.ios[i].deadline =
            IF build.options.Timeout > 0
            THEN build.ios[i].hop + build.options.Timeout
            ELSE NoDeadline

\* The second hop of a call with a timeout was written and read under a
\* deadline later than the first hop's.
C24_Witness ==
    /\ build.pc = "written" /\ build.options.Timeout = 2
    /\ Len(build.ios) = 4
    /\ build.ios[1].deadline = 3 /\ build.ios[4].deadline = 4

\* C25: the redirect bound of a DoRawWithOptions call is the MaxRedirects of
\* the options passed to the call, as its FollowRedirects flag is theirs.
C25_BoundFromCallOptions ==
    (pc # "idle" /\ call.api = "DoRawWithOptions")
    => /\ call.rs.FollowRedirects = call.opts.FollowRedirects
       /\ call.rs.MaxRedirects = call.opts.MaxRedirects

\* The path a hop is to send: the override when one was supplied, else the
\* path of the hop's URL, "/" for an empty one, with "?" and the query after
\* it when there is a query.
PathToSend ==
    IF build.uripath # "" THEN build.uripath
    ELSE IF build.url.path = "" /\ build.url.query = "" THEN "/"
    ELSE IF build.url.path = "" THEN "/?" \o build.url.query
    ELSE IF build.url.query = "" THEN build.url.path
    ELSE build.url.path \o "?" \o build.url.query

\* C26, as stated: the request of every hop carries that path.
C26_PathOrOverride ==
    build.pc = "written" => build.req.Path = PathToSend

\* C26, amended: the same, for calls that do not supply CustomRawBytes.
C26_PathOrOverrideUnlessRaw ==
    (build.pc = "written" /\ Len(build.options.CustomRawBytes) = 0)
    => build.req.Path = PathToSend

\* The hop that followed a redirect to a URL with a path and a query was
\* written with the override the call was given.
C26_Witness ==
    /\ build.pc = "written" /\ Len(build.addrs) = 2
    /\ Len(build.options.CustomRawBytes) = 0
    /\ build.url.path = "/old" /\ build.url.query = "q=1"
    /\ build.uripath = "/override"
    /\ build.req.Path = "/override"

\* C27: a caller that has taken the dialer's mutex, in dialTimeout (hit, miss
\* or empty slice for the address) or in Release, gives it up again, so the
\* mutex is free again and again for the callers that wait for it.
C27_MutexAlwaysReleased ==
    \A p \in Callers : (mu = p) ~> (mu = 0)

\* A caller is inside the lookup of an address whose slice is empty while
\* another caller, with a connection to release, has to wait for the mutex.
C27_Witness ==
    \E p, q \in Callers :
        /\ mu = p /\ pcP[p] = "dialLocked"
        /\ Len(conns[addrP[p]]) = 0
        /\ dials > 0
        /\ pcP[q] = "holding"

\* A fasthttp object referenced by a wrapper some caller holds.
HandedOut(k) == {wrap.inner[k][w] : w \in {v \in Wrappers : wrap.state[k][v] = "out"}}

\* C28: a wrapper handed out by AcquireResponse or AcquireRequest owns its
\* fasthttp object exclusively: no object is both referenced by a handed-out
\* wrapper and in fasthttp's free pool, and no object is referenced by two
\* handed-out wrappers.
C28_ExclusiveOwnership ==
    \A k \in Kinds :
        /\ HandedOut(k) \cap wrap.free[k] = {}
        /\ \A w1, w2 \in Wrappers :
            (/\ w1 # w2
             /\ wrap.state[k][w1] = "out"
             /\ wrap.state[k][w2] = "out")
            => wrap.inner[k][w1] # wrap.inner[k][w2]

====
